---- MODULE Spec2Model ----
(***************************************************************************)
(* node-DeepResearch: the research agent (core/index.ts), the generic      *)
(* state machine that drives it (core/base/StateMachine.ts) and the        *)
(* state manager it records into (core/base/StateManager.ts).              *)
(*                                                                         *)
(* Nine specifications:                                                    *)
(*   Spec      - the shipped composition: a StateManager built by its      *)
(*               constructor (query = ''), research(), cancel() and the    *)
(*               owner's direct calls of the StateManager.                 *)
(*   SpecAgent - the agent over an injected StateManager whose state may   *)
(*               already hold a query, so that the handlers behind idle    *)
(*               are exercised.  FairAgent adds the scheduling fairness.   *)
(*   SpecLong  - one longer session of that agent (maxSteps = LongSteps)   *)
(*               that is neither cancelled nor timed out.                  *)
(*   SpecTwo   - that agent with a second research() call made while the   *)
(*               first one is still awaiting its port.                     *)
(*   SpecAfter - that agent with research() called again once a run has    *)
(*               ended in a terminal state.                                *)
(*   SpecListeners - the shipped StateManager with listeners subscribing   *)
(*               and unsubscribing between the calls that update it.       *)
(*   SpecErrors - construction of LLMError and SearchError for every       *)
(*               status code (core/types/errors.ts).                       *)
(*   SpecConfig - loadConfigFromEnv() over the process environment         *)
(*               (core/types/schemas.ts).                                  *)
(*   SpecReader - WebContentReader.read() of a fetched page.               *)
(***************************************************************************)
EXTENDS Integers, Sequences, FiniteSets, TLC

\* ------------------------------------------------------------------ bounds
MaxSteps == 5          \* options.maxSteps of the modelled session
LongSteps == 7         \* options.maxSteps of the long undisturbed session
MaxDuration == 1       \* options.maxDuration, in clock ticks
Timeout == 1           \* options.timeout, in clock ticks
TokenBudget == 2       \* StateManagerOptions.tokenBudget of the session
MaxTokens == 2         \* largest total of LLM-reported tokens followed
MaxNow == 2            \* clock ticks the caller may let pass outside a run
MaxBadAttempts == 1    \* config.maxBadAttempts of the modelled session
MaxKnowledge == 2      \* StateManagerOptions.maxKnowledge of the session
MaxStatus == 599       \* largest context.statusCode an error is built with
MaxResults == 1        \* most results one search (one addSearchResults) has
HistoryLimit == 3      \* entries recordTransition keeps (100), scaled down
MaxNodes == 2          \* most pieces of text a fetched page has

\* ------------------------------------------------------------- input sets
Queries == {"q1", "q2"}
Reasons == {"r1"}

\* Bodies the LLM port may answer with (adversarial, any call may get any).
Contents ==
  { "yes", "no", "{bad}",
    "{type:search,queries:[q2]}", "{type:search,queries:[q2,q3]}",
    "{type:search,queries:[]}", "{type:search}",
    "{type:visit,urls:[u1]}", "{type:visit,urls:[]}", "{type:visit}",
    "{type:answer,answer:a1}", "{type:reflect}" }

\* What a call of llmProvider.generate settles with: a body, or a failure.
LLMOutcomes ==
  { [ok |-> TRUE, content |-> c] : c \in Contents }
    \cup { [ok |-> FALSE, content |-> ""] }
\* usage.totalTokens of one response.
Usages == {0, 1}
\* Amounts a caller passes to trackTokenUsage.
TokenAmounts == {-1, 0, 1}
\* Questions of the knowledge items a caller adds.
Questions == {"k1", "k2"}
\* URLs and titles of search results.
Urls == {"u1", "u2"}
Titles == {"t1", "t2"}
\* SearchResult (StateManager.ts), without snippet and relevance.
SearchResults == [url : Urls, title : Titles, visited : BOOLEAN]
\* The arrays a caller may pass to addSearchResults.
SearchResultLists == UNION { [1..n -> SearchResults] : n \in 0..MaxResults }
\* The arrays searchProvider.search may resolve with.
ProviderResultLists ==
  UNION { [1..n -> [url : Urls, title : Titles]] : n \in 0..MaxResults }

VARIABLES
  state,           \* StateManager.state (ResearchState)
  frozen,          \* StateManager.state has been frozen by Immer
  autoFreeze,      \* the Immer build freezes an unmodified base state
  currentState,    \* StateMachine.currentState
  stepCount,       \* StateMachine.stepCount
  isCancelled,     \* StateMachine.isCancelled
  cancelReason,    \* StateMachine.cancelReason
  startTime,       \* StateMachine.startTime
  transitionStart, \* run(): transitionStart of the transition in flight
  pc,              \* position of research()/run(): idle, loop, await, done
  outcome,         \* how research() settled: Returned or the error raised
  task,            \* the transition handler in flight
  detached,        \* executeWithTimeout has given up on the task in flight
  reqQuery,        \* the argument of research()
  tokensReported,  \* sum of usage.totalTokens of the LLM calls completed
  now,             \* Date.now(), in clock ticks
  maxSteps,        \* StateMachine.options.maxSteps
  rejections,      \* transitions evaluating -> reflecting taken so far
  searched,        \* searchProvider.search has been called
  fetched,         \* URLs contentReader.read has returned a page for
  lastCall,        \* the caller's last direct StateManager call
  parseFailed,     \* parseAction threw on the last decision received
  other,           \* a second research() call of the caller, set aside
  lastError,       \* the AgentError constructed last
  snapshot,        \* what the caller read from getState() when it called it
  tracked,         \* sum of the amounts passed to trackTokenUsage
  pending,         \* queries of the last search action not searched yet
  listeners,       \* StateManager.listeners
  notified,        \* what the last update() of a subscribed-to manager did
  history,         \* StateMachine.history
  stateChanges,    \* calls of options.onStateChange made so far
  loaded,          \* the last loadConfigFromEnv() call and how it ended
  readResult       \* the last WebContentReader.read() call and how it ended

vars == << state, frozen, autoFreeze, currentState, stepCount, isCancelled,
           cancelReason, startTime, transitionStart, pc, outcome, task,
           detached, reqQuery, tokensReported, now, maxSteps, rejections,
           searched, fetched, lastCall, parseFailed, other, lastError,
           snapshot, tracked, pending, listeners, notified, history,
           stateChanges, loaded, readResult >>

\* --------------------------------------------------------- AgentState
St(status, step, data) == [status |-> status, step |-> step, data |-> data]

IdleState == St("idle", 0, "")
\* A resolved timer hands run() its callback as the next state: it has no
\* status field.
TimerValue == St("undefined", 0, "")

\* isTerminal taking a candidate answer under evaluation for a final state.
isTerminal_evaluatingToo(s) ==
  s.status \in {"completed", "failed", "cancelled", "evaluating"}
isTerminal(s) == s.status \in {"completed", "failed", "cancelled"}

transitionHandlers ==
  {"idle", "initializing", "searching", "reading", "evaluating", "reflecting"}

\* The validator registered for a status: the type guard of that status.
validators(status, s) == s.status = status

\* The transitions the comments of createStateMachine announce.
documentedTransitions ==
  { << "idle", "initializing" >>, << "initializing", "searching" >>,
    << "searching", "reading" >>, << "searching", "evaluating" >>,
    << "reading", "evaluating" >>,
    << "evaluating", "searching" >>, << "evaluating", "reflecting" >>,
    << "evaluating", "completed" >>,
    << "reflecting", "searching" >>, << "reflecting", "completed" >> }

\* --------------------------------------------------------- StateManager
InitialResearchState ==
  [query |-> "", step |-> 0, lastUpdate |-> 0, used |-> 0, errorCount |-> 0,
   searchCount |-> 0, visitCount |-> 0, knowledge |-> << >>, urls |-> << >>]

\* produce(base, recipe): the next state Immer returns for the recipe.
produce(base, draft) == draft

\* update(updater) storing the state produce() returns.
update_keepsDraft(s, fz, draft) ==
  LET next == produce(s, draft)
  IN  IF fz
        THEN [state |-> s, frozen |-> TRUE, threw |-> TRUE,
              applied |-> [next EXCEPT !.lastUpdate = now]]
        ELSE [state |-> [next EXCEPT !.lastUpdate = now],
              frozen |-> FALSE, threw |-> FALSE,
              applied |-> [next EXCEPT !.lastUpdate = now]]
\* update(updater): the value produce() returns is dropped; an unmodified
\* base is frozen by an auto-freezing Immer, and the assignment of
\* lastUpdate to a frozen state throws.  'applied' is the state the recipe
\* describes, stamped: what the call is meant to leave behind.
update(s, fz, draft) ==
  LET next == produce(s, draft)
      fz2  == fz \/ (autoFreeze /\ next = s)
  IN  IF fz2
        THEN [state |-> s, frozen |-> TRUE, threw |-> TRUE,
              applied |-> [next EXCEPT !.lastUpdate = now]]
        ELSE [state |-> [s EXCEPT !.lastUpdate = now],
              frozen |-> FALSE, threw |-> FALSE,
              applied |-> [next EXCEPT !.lastUpdate = now]]

initialize(s, fz, q) == update(s, fz, [s EXCEPT !.query = q, !.step = 0])
incrementStep(s, fz) == update(s, fz, [s EXCEPT !.step = @ + 1])
incrementErrorCount(s, fz) == update(s, fz, [s EXCEPT !.errorCount = @ + 1])
\* results.forEach: a result is stored unless its URL has a record already.
RECURSIVE addResults(_, _)
addResults(urls, results) ==
  IF results = << >> THEN urls
  ELSE LET r == Head(results)
       IN  addResults(IF r.url \in DOMAIN urls THEN urls
                                               ELSE urls @@ (r.url :> r),
                      Tail(results))
addSearchResults(s, fz, results) ==
  update(s, fz, [s EXCEPT !.urls = addResults(@, results),
                          !.searchCount = @ + 1])
addContent(s, fz) == update(s, fz, [s EXCEPT !.visitCount = @ + 1])
\* addKnowledge(question, ...): push the item, keep the last maxKnowledge.
addKnowledge(s, fz, question) ==
  LET k == Append(s.knowledge, question)
  IN  update(s, fz,
             [s EXCEPT !.knowledge =
                IF Len(k) > MaxKnowledge
                  THEN SubSeq(k, Len(k) - MaxKnowledge + 1, Len(k))
                  ELSE k])
trackTokenUsage(s, fz, tokens) == update(s, fz, [s EXCEPT !.used = @ + tokens])
\* markUrlVisited(url): the record of a known URL is rewritten as visited,
\* for an unknown URL the recipe changes nothing.
markUrlVisited(s, fz, url) ==
  update(s, fz,
         IF url \in DOMAIN s.urls
           THEN [s EXCEPT !.urls = [@ EXCEPT ![url].visited = TRUE]]
           ELSE s)

getQuery(s) == s.query
\* getState() returns this.state itself, the one object update() assigns
\* lastUpdate on: what a caller holds is that object, with its content now.
NoSnapshot == [taken |-> FALSE, seen |-> InitialResearchState]
getState(s) == [taken |-> TRUE, seen |-> s]
returnedObject == state
isBudgetExhausted(s) == 100 * s.used >= 85 * TokenBudget

\* The functions a caller may subscribe.
Listeners == {"l1", "l2"}

\* No update() has been made while a listener was subscribed.
NoUpdate ==
  [called |-> FALSE, subs |-> {}, n |-> [l \in Listeners |-> 0],
   seen |-> InitialResearchState, applied |-> InitialResearchState]

\* update() from the assignment of lastUpdate on, r being what the call did
\* to the state: when the assignment throws nobody is called, otherwise
\* notifyListeners calls each member of the set once with getState().
notifyListeners(ls, r) ==
  [called |-> TRUE, subs |-> ls,
   n |-> [l \in Listeners |-> IF ~r.threw /\ l \in ls THEN 1 ELSE 0],
   seen |-> getState(r.state).seen, applied |-> r.applied]

\* The catch blocks of handleSearching and handleReading: count the error,
\* then raise the handler's own error kind.
catchBlock(s, fz, kind) ==
  LET r == incrementErrorCount(s, fz)
  IN  [state |-> r.state, frozen |-> r.frozen,
       err |-> IF r.threw THEN "TypeError" ELSE kind]

\* ---------------------------------------------------------------- errors
\* context.statusCode: absent, or a number.
NoStatus == [has |-> FALSE, code |-> 0]
StatusCodes == {NoStatus} \cup { [has |-> TRUE, code |-> c] : c \in 0..MaxStatus }
\* !context.statusCode
noStatusCode(sc) == ~sc.has \/ sc.code = 0

\* LLMError classified like a SearchError: rate limits are not retried.
LLMErrorRetryable_serverOnly(sc) == noStatusCode(sc) \/ sc.code >= 500
\* LLMError.retryable
LLMErrorRetryable(sc) ==
  noStatusCode(sc) \/ sc.code = 429 \/ sc.code >= 500
\* SearchError.retryable
SearchErrorRetryable(sc) == noStatusCode(sc) \/ sc.code >= 500

NoError == [kind |-> "none", statusCode |-> NoStatus, retryable |-> FALSE]
LLMError(sc) ==
  [kind |-> "LLMError", statusCode |-> sc, retryable |-> LLMErrorRetryable(sc)]
SearchError(sc) ==
  [kind |-> "SearchError", statusCode |-> sc,
   retryable |-> SearchErrorRetryable(sc)]

\* ------------------------------------------------------------ LLM output
\* content.match(/\{[\s\S]*\}/)
hasJsonMatch(c) == c \notin {"yes", "no"}
\* content.toLowerCase().includes('yes')
includesYes(c) == c = "yes"

Act(type, hasList, list, answer) ==
  [threw |-> FALSE, type |-> type, hasList |-> hasList, list |-> list,
   answer |-> answer]

\* parseAction(content): JSON.parse of the matched text, unvalidated; a
\* default search action for the session query when nothing matches.
parseAction(c, q) ==
  IF ~hasJsonMatch(c) THEN Act("search", TRUE, << q >>, "")
  ELSE CASE c = "{bad}" -> [Act("", FALSE, << >>, "") EXCEPT !.threw = TRUE]
         [] c = "{type:search,queries:[q2]}" -> Act("search", TRUE, << "q2" >>, "")
         [] c = "{type:search,queries:[q2,q3]}" ->
              Act("search", TRUE, << "q2", "q3" >>, "")
         [] c = "{type:search,queries:[]}" -> Act("search", TRUE, << >>, "")
         [] c = "{type:search}" -> Act("search", FALSE, << >>, "")
         [] c = "{type:visit,urls:[u1]}" -> Act("visit", TRUE, << "u1" >>, "")
         [] c = "{type:visit,urls:[]}" -> Act("visit", TRUE, << >>, "")
         [] c = "{type:visit}" -> Act("visit", FALSE, << >>, "")
         [] c = "{type:answer,answer:a1}" -> Act("answer", FALSE, << >>, "a1")
         [] OTHER -> Act("reflect", FALSE, << >>, "")

\* action.queries of a search action: the queries the LLM asked for.
queriesOf(a) ==
  IF ~a.threw /\ a.type = "search" /\ a.hasList
    THEN { a.list[i] : i \in 1..Len(a.list) }
    ELSE {}

Ok(res) == [err |-> "none", res |-> res]
Fail(err) == [err |-> err, res |-> IdleState]

\* handleSearching, after decideNextAction: the state each action leads to,
\* or the error raised while reading the action's fields.
searchingNext(a, st) ==
  IF a.type = "visit" THEN
    IF ~a.hasList THEN Fail("TypeError")
    ELSE IF a.list = << >> THEN Fail("Error")
    ELSE Ok(St("reading", st.step, a.list[1]))
  ELSE IF a.type = "search" THEN
    IF ~a.hasList THEN Fail("TypeError")
    ELSE Ok(St("searching", st.step + 1,
               IF a.list # << >> /\ a.list[1] # "" THEN a.list[1]
                                                    ELSE st.data))
  ELSE IF a.type = "answer" THEN Ok(St("evaluating", st.step, a.answer))
  ELSE Ok(St("searching", st.step + 1, st.data))

\* handleReflecting, after decideNextAction; "final" stands for the default
\* branch, which goes on to generateFinalAnswer.
reflectingNext(a, st, q) ==
  IF a.type = "search" THEN
    IF ~a.hasList THEN Fail("TypeError")
    ELSE Ok(St("searching", st.step + 1,
               IF a.list # << >> /\ a.list[1] # "" THEN a.list[1] ELSE q))
  ELSE IF a.type = "visit" THEN
    IF ~a.hasList THEN Fail("TypeError")
    ELSE IF a.list = << >> THEN Fail("Error")
    ELSE Ok(St("reading", st.step, a.list[1]))
  ELSE IF a.type = "answer" THEN Ok(St("completed", 0, a.answer))
  ELSE Fail("final")

\* The listeners' part of one update() call with result r.
Notify(r) ==
  notified' = IF listeners = {} THEN notified
                                ELSE notifyListeners(listeners, r)

\* The caller has not called the StateManager directly yet.
NoCall == [op |-> "none", tokens |-> 0, question |-> "", urls |-> {},
           threw |-> FALSE]

\* ---------------------------------------------------------------- tasks
NoTask == [h |-> "none", at |-> "none", st |-> IdleState,
           res |-> IdleState, err |-> "none"]
Await(h, at, st) == [h |-> h, at |-> at, st |-> st,
                     res |-> IdleState, err |-> "none"]
Returned(h, st, res) == [h |-> h, at |-> "returned", st |-> st,
                         res |-> res, err |-> "none"]
Threw(h, st, err) == [h |-> h, at |-> "threw", st |-> st,
                      res |-> IdleState, err |-> err]

\* What belongs to one call of research(): its position, the handler it
\* awaits, and how it settled.  NoRun: the caller has made one call only.
NoRun == [pc |-> "none", task |-> NoTask, transitionStart |-> 0,
          detached |-> FALSE, outcome |-> "none", reqQuery |-> ""]
ThisRun == [pc |-> pc, task |-> task, transitionStart |-> transitionStart,
            detached |-> detached, outcome |-> outcome, reqQuery |-> reqQuery]

\* -------------------------------------------------------- StateMachine
\* checkTerminationConditions without the step limit.
checkTerminationConditions_noStepLimit(sc, elapsed) ==
  IF elapsed > MaxDuration THEN "MaxDuration" ELSE "ok"

\* checkTerminationConditions comparing with > instead of >=.
checkTerminationConditions_offByOne(sc, elapsed) ==
  IF sc > maxSteps THEN "MaxSteps"
  ELSE IF elapsed > MaxDuration THEN "MaxDuration"
  ELSE "ok"

checkTerminationConditions(sc, elapsed) ==
  IF sc >= maxSteps THEN "MaxSteps"
  ELSE IF elapsed > MaxDuration THEN "MaxDuration"
  ELSE "ok"

\* run() checking the termination conditions before the cancellation.
runGate_limitsFirst(cur, sc, canc, elapsed) ==
  IF isTerminal(cur) THEN "return"
  ELSE IF checkTerminationConditions(sc, elapsed) # "ok"
    THEN checkTerminationConditions(sc, elapsed)
  ELSE IF canc THEN "Cancelled"
  ELSE IF cur.status \notin transitionHandlers THEN "NoHandler"
  ELSE IF ~validators(cur.status, cur) THEN "Invalid"
  ELSE "dispatch"

\* The head of one iteration of run(): what the loop does with the state.
runGate(cur, sc, canc, elapsed) ==
  IF isTerminal(cur) THEN "return"
  ELSE IF canc THEN "Cancelled"
  ELSE IF checkTerminationConditions(sc, elapsed) # "ok"
    THEN checkTerminationConditions(sc, elapsed)
  ELSE IF cur.status \notin transitionHandlers THEN "NoHandler"
  ELSE IF ~validators(cur.status, cur) THEN "Invalid"
  ELSE "dispatch"

Gate == runGate(currentState, stepCount, isCancelled, now - startTime)

Dispatch(status) ==
  /\ pc = "loop"
  /\ Gate = "dispatch"
  /\ currentState.status = status
  /\ stepCount <= maxSteps
  /\ transitionStart' = now
  /\ detached' = FALSE
  /\ pc' = "await"

\* ------------------------------------------------------------- research
research(q) ==
  /\ pc = "idle"
  /\ reqQuery' = q
  /\ LET r == initialize(state, frozen, q)
     IN  /\ state' = r.state
         /\ frozen' = r.frozen
         /\ Notify(r)
         /\ IF r.threw
              THEN /\ pc' = "done"
                   /\ outcome' = "TypeError"
                   /\ UNCHANGED startTime
              ELSE /\ pc' = "loop"
                   /\ startTime' = now
                   /\ UNCHANGED outcome
  /\ UNCHANGED << autoFreeze, maxSteps, rejections, searched,
                  fetched, lastCall, parseFailed, pending, currentState, stepCount, isCancelled,
                  cancelReason, transitionStart, task, detached,
                  tokensReported, now, other, lastError, snapshot, tracked,
                  listeners,
                  history, stateChanges,
                  loaded, readResult >>

\* research() called again once an earlier call has left the state machine
\* in a terminal state.
researchAfterTerminal(q) ==
  /\ pc = "done"
  /\ isTerminal(currentState)
  /\ reqQuery' = q
  /\ LET r == initialize(state, frozen, q)
     IN  /\ state' = r.state
         /\ frozen' = r.frozen
         /\ Notify(r)
         /\ IF r.threw
              THEN /\ pc' = "done"
                   /\ outcome' = "TypeError"
                   /\ UNCHANGED startTime
              ELSE /\ pc' = "loop"
                   /\ startTime' = now
                   /\ outcome' = "none"
  /\ UNCHANGED << autoFreeze, maxSteps, rejections, searched,
                  fetched, lastCall, parseFailed, pending, currentState, stepCount, isCancelled,
                  cancelReason, transitionStart, task, detached,
                  tokensReported, now, other, lastError, snapshot, tracked,
                  listeners,
                  history, stateChanges,
                  loaded, readResult >>

\* research() called again while the first call awaits a port inside a
\* handler: the same StateManager and the same StateMachine are used.
researchAgain(q) ==
  /\ pc = "await"
  /\ task.at \notin {"returned", "threw", "none"}
  /\ other = NoRun
  /\ other' = ThisRun
  /\ reqQuery' = q
  /\ task' = NoTask
  /\ detached' = FALSE
  /\ transitionStart' = 0
  /\ LET r == initialize(state, frozen, q)
     IN  /\ state' = r.state
         /\ frozen' = r.frozen
         /\ Notify(r)
         /\ IF r.threw
              THEN /\ pc' = "done"
                   /\ outcome' = "TypeError"
                   /\ UNCHANGED startTime
              ELSE /\ pc' = "loop"
                   /\ startTime' = now
                   /\ outcome' = "none"
  /\ UNCHANGED << autoFreeze, maxSteps, rejections, searched, fetched,
                  lastCall, parseFailed, pending, currentState, stepCount,
                  isCancelled, cancelReason, tokensReported, now, lastError,
                  snapshot, tracked,
                  listeners,
                  history, stateChanges,
                  loaded, readResult >>

\* The event loop turns to the other call: its continuation runs next.
swapRuns ==
  /\ pc \in {"await", "done"}
  /\ other # NoRun
  /\ other' = ThisRun
  /\ pc' = other.pc
  /\ task' = other.task
  /\ transitionStart' = other.transitionStart
  /\ detached' = other.detached
  /\ outcome' = other.outcome
  /\ reqQuery' = other.reqQuery
  /\ UNCHANGED << state, frozen, autoFreeze, maxSteps, rejections, searched,
                  fetched, lastCall, parseFailed, pending, currentState, stepCount,
                  isCancelled, cancelReason, startTime, tokensReported, now,
                  lastError, snapshot, tracked,
                  listeners, notified,
                  history, stateChanges,
                  loaded, readResult >>

cancel(reason) ==
  /\ pc # "loop"
  /\ isCancelled' = TRUE
  /\ cancelReason' = reason
  /\ UNCHANGED << state, frozen, autoFreeze, maxSteps, rejections, searched,
                  fetched, lastCall, parseFailed, pending, currentState, stepCount,
                  startTime, transitionStart, pc, outcome, task, detached,
                  reqQuery, tokensReported, now, other, lastError, snapshot,
                  tracked,
                  listeners, notified,
                  history, stateChanges,
                  loaded, readResult >>

\* The owner of the StateManager calls it directly, between two handlers
\* of the agent at the earliest.
CallFrame ==
  UNCHANGED << autoFreeze, maxSteps, rejections, searched, fetched,
               parseFailed, pending, currentState, stepCount, isCancelled,
               cancelReason, startTime, transitionStart, pc, outcome, task,
               detached, reqQuery, tokensReported, now, other, lastError,
               snapshot,
                  listeners,
                  history, stateChanges,
                  loaded, readResult >>

callTrackTokenUsage(tokens) ==
  /\ pc # "loop"
  /\ state.used + tokens \in (0 - MaxTokens)..MaxTokens
  /\ tracked + tokens \in (0 - MaxTokens)..MaxTokens
  /\ LET r == trackTokenUsage(state, frozen, tokens)
     IN  /\ state' = r.state
         /\ frozen' = r.frozen
         /\ Notify(r)
         /\ lastCall' = [op |-> "trackTokenUsage", tokens |-> tokens,
                         question |-> "", urls |-> {}, threw |-> r.threw]
  /\ tracked' = tracked + tokens
  /\ CallFrame

callGetState ==
  /\ pc # "loop"
  /\ snapshot' = getState(state)
  /\ UNCHANGED << state, frozen, lastCall, autoFreeze, maxSteps, rejections,
                  searched, fetched, parseFailed, pending, currentState, stepCount,
                  isCancelled, cancelReason, startTime, transitionStart, pc,
                  outcome, task, detached, reqQuery, tokensReported, now,
                  other, lastError, tracked,
                  listeners, notified,
                  history, stateChanges,
                  loaded, readResult >>

callAddKnowledge(question) ==
  /\ pc # "loop"
  /\ LET r == addKnowledge(state, frozen, question)
     IN  /\ state' = r.state
         /\ frozen' = r.frozen
         /\ Notify(r)
         /\ lastCall' = [op |-> "addKnowledge", tokens |-> 0,
                         question |-> question, urls |-> {},
                         threw |-> r.threw]
  /\ UNCHANGED tracked
  /\ CallFrame

callAddSearchResults(results) ==
  /\ pc # "loop"
  /\ LET r == addSearchResults(state, frozen, results)
     IN  /\ state' = r.state
         /\ frozen' = r.frozen
         /\ Notify(r)
         /\ lastCall' = [op |-> "addSearchResults", tokens |-> 0,
                         question |-> "",
                         urls |-> { results[i].url : i \in 1..Len(results) },
                         threw |-> r.threw]
  /\ UNCHANGED tracked
  /\ CallFrame

callMarkUrlVisited(url) ==
  /\ pc # "loop"
  /\ LET r == markUrlVisited(state, frozen, url)
     IN  /\ state' = r.state
         /\ frozen' = r.frozen
         /\ Notify(r)
         /\ lastCall' = [op |-> "markUrlVisited", tokens |-> 0,
                         question |-> "", urls |-> {url}, threw |-> r.threw]
  /\ UNCHANGED tracked
  /\ CallFrame

\* subscribe(listener): the listener joins the set.
subscribe(l) ==
  /\ pc # "loop"
  /\ l \notin listeners
  /\ listeners' = listeners \cup {l}
  /\ UNCHANGED << state, frozen, lastCall, autoFreeze, maxSteps, rejections,
                  searched, fetched, parseFailed, pending, currentState,
                  stepCount, isCancelled, cancelReason, startTime,
                  transitionStart, pc, outcome, task, detached, reqQuery,
                  tokensReported, now, other, lastError, snapshot, tracked,
                  notified,
                  history, stateChanges,
                  loaded, readResult >>

\* The function subscribe(listener) returned is called: the listener
\* leaves the set.
unsubscribe(l) ==
  /\ pc # "loop"
  /\ l \in listeners
  /\ listeners' = listeners \ {l}
  /\ UNCHANGED << state, frozen, lastCall, autoFreeze, maxSteps, rejections,
                  searched, fetched, parseFailed, pending, currentState,
                  stepCount, isCancelled, cancelReason, startTime,
                  transitionStart, pc, outcome, task, detached, reqQuery,
                  tokensReported, now, other, lastError, snapshot, tracked,
                  notified,
                  history, stateChanges,
                  loaded, readResult >>

\* Time passes only while the event loop is free: between the caller's
\* calls and while a port call is awaited, up to the transition timer.
Tick ==
  /\ \/ pc \in {"idle", "done"} /\ now < MaxNow
     \/ /\ pc = "await"
        /\ task.at \notin {"returned", "threw", "none"}
        /\ now - transitionStart < Timeout
  /\ now' = now + 1
  /\ UNCHANGED << state, frozen, autoFreeze, maxSteps, rejections, searched,
                  fetched, lastCall, parseFailed, pending, currentState, stepCount,
                  isCancelled, cancelReason, startTime, transitionStart, pc,
                  outcome, task, detached, reqQuery, tokensReported, other,
                  lastError, snapshot, tracked,
                  listeners, notified,
                  history, stateChanges,
                  loaded, readResult >>

\* ------------------------------------------------------ run(): loop exits
runReturn ==
  /\ pc = "loop"
  /\ Gate = "return"
  /\ pc' = "done"
  /\ outcome' = "Returned"
  /\ UNCHANGED << state, frozen, autoFreeze, maxSteps, rejections, searched,
                  fetched, lastCall, parseFailed, pending, currentState, stepCount,
                  isCancelled, cancelReason, startTime, transitionStart,
                  task, detached, reqQuery, tokensReported, now, other,
                  lastError, snapshot, tracked,
                  listeners, notified,
                  history, stateChanges,
                  loaded, readResult >>

runThrow(kind) ==
  /\ pc = "loop"
  /\ Gate = kind
  /\ pc' = "done"
  /\ outcome' = kind
  /\ UNCHANGED << state, frozen, autoFreeze, maxSteps, rejections, searched,
                  fetched, lastCall, parseFailed, pending, currentState, stepCount,
                  isCancelled, cancelReason, startTime, transitionStart,
                  task, detached, reqQuery, tokensReported, now, other,
                  lastError, snapshot, tracked,
                  listeners, notified,
                  history, stateChanges,
                  loaded, readResult >>

runCancelled == runThrow("Cancelled")
runMaxSteps == runThrow("MaxSteps")
runMaxDuration == runThrow("MaxDuration")
runNoHandler == runThrow("NoHandler")

\* ------------------------------------------------------------- handlers
handleIdle ==
  /\ Dispatch("idle")
  /\ task' = IF getQuery(state) = ""
               THEN Threw("idle", currentState, "ConfigurationError")
               ELSE Returned("idle", currentState,
                             St("initializing", 0, getQuery(state)))
  /\ UNCHANGED << state, frozen, autoFreeze, maxSteps, rejections, searched,
                  fetched, lastCall, parseFailed, pending, currentState, stepCount,
                  isCancelled, cancelReason, startTime, outcome, reqQuery,
                  tokensReported, now, other, lastError, snapshot, tracked,
                  listeners, notified,
                  history, stateChanges,
                  loaded, readResult >>

handleInitializing ==
  /\ Dispatch("initializing")
  /\ LET r == incrementStep(state, frozen)
     IN  /\ state' = r.state
         /\ frozen' = r.frozen
         /\ Notify(r)
         /\ task' = IF r.threw
                      THEN Threw("initializing", currentState, "TypeError")
                      ELSE Returned("initializing", currentState,
                                    St("searching", 1, currentState.data))
  /\ UNCHANGED << autoFreeze, maxSteps, rejections, searched,
                  fetched, lastCall, parseFailed, pending, currentState, stepCount, isCancelled,
                  cancelReason, startTime, outcome, reqQuery,
                  tokensReported, now, other, lastError, snapshot, tracked,
                  listeners,
                  history, stateChanges,
                  loaded, readResult >>

handleSearching ==
  /\ Dispatch("searching")
  /\ task' = Await("searching", "search", currentState)
  /\ searched' = TRUE
  /\ pending' = pending \ {currentState.data}
  /\ UNCHANGED << state, frozen, autoFreeze, maxSteps, rejections,
                  fetched, lastCall, parseFailed, currentState, stepCount,
                  isCancelled, cancelReason, startTime, outcome, reqQuery,
                  tokensReported, now, other, lastError, snapshot, tracked,
                  listeners, notified,
                  history, stateChanges,
                  loaded, readResult >>

handleReading ==
  /\ Dispatch("reading")
  /\ task' = Await("reading", "read", currentState)
  /\ UNCHANGED << state, frozen, autoFreeze, maxSteps, rejections, searched,
                  fetched, lastCall, parseFailed, pending, currentState, stepCount,
                  isCancelled, cancelReason, startTime, outcome, reqQuery,
                  tokensReported, now, other, lastError, snapshot, tracked,
                  listeners, notified,
                  history, stateChanges,
                  loaded, readResult >>

\* shouldContinueResearch up to its LLM call: the stop conditions send the
\* handler straight to generateFinalAnswer.
handleEvaluating ==
  /\ Dispatch("evaluating")
  /\ task' = IF isBudgetExhausted(state) \/ state.errorCount >= MaxBadAttempts
               THEN Await("evaluating", "final", currentState)
               ELSE Await("evaluating", "continue", currentState)
  /\ UNCHANGED << state, frozen, autoFreeze, maxSteps, rejections, searched,
                  fetched, lastCall, parseFailed, pending, currentState, stepCount,
                  isCancelled, cancelReason, startTime, outcome, reqQuery,
                  tokensReported, now, other, lastError, snapshot, tracked,
                  listeners, notified,
                  history, stateChanges,
                  loaded, readResult >>

handleReflecting ==
  /\ Dispatch("reflecting")
  /\ task' = Await("reflecting", "decide", currentState)
  /\ UNCHANGED << state, frozen, autoFreeze, maxSteps, rejections, searched,
                  fetched, lastCall, parseFailed, pending, currentState, stepCount,
                  isCancelled, cancelReason, startTime, outcome, reqQuery,
                  tokensReported, now, other, lastError, snapshot, tracked,
                  listeners, notified,
                  history, stateChanges,
                  loaded, readResult >>

\* ------------------------------------------------ handlers: port results
TaskFrame ==
  UNCHANGED << autoFreeze, maxSteps, rejections, searched, lastCall,
               currentState, stepCount, isCancelled, cancelReason,
               startTime, transitionStart, pc, outcome, detached, reqQuery,
               now, other, lastError, snapshot, tracked,
                  listeners,
                  history, stateChanges,
                  loaded, readResult >>

\* Calls of the awaited port the handler in flight has made for its current
\* step: every handler makes each of its port calls once, no loop surrounds
\* an await.
attemptsMade ==
  IF task.at \in {"search", "read", "decide", "extract", "continue", "final"}
    THEN 1 ELSE 0

\* An LLM call settles with outcome r, reporting u tokens when it answers.
LLMSettles(r, u) ==
  /\ r.ok \/ u = 0
  /\ tokensReported + u <= MaxTokens
  /\ tokensReported' = tokensReported + u

\* decideNextAction: a failed call and an unparseable body both end as an
\* LLMError.
decideNextAction(r, q) ==
  IF r.ok THEN parseAction(r.content, q)
          ELSE [Act("", FALSE, << >>, "") EXCEPT !.threw = TRUE]

\* Leave a handler through its catch block.
Catch(s, fz, kind) ==
  LET c == catchBlock(s, fz, kind)
  IN  /\ state' = c.state
      /\ frozen' = c.frozen
      /\ Notify(incrementErrorCount(s, fz))
      /\ task' = Threw(task.h, task.st, c.err)

\* results.map(...): the provider's results in the StateManager's format.
convertedResults(results) ==
  [i \in 1..Len(results) |->
     [url |-> results[i].url, title |-> results[i].title, visited |-> FALSE]]

\* handleSearching: searchProvider.search settles, then addSearchResults.
searchSettles ==
  /\ pc # "loop"
  /\ task.at = "search"
  /\ \E ok \in BOOLEAN, results \in ProviderResultLists :
       IF ~ok THEN Catch(state, frozen, "SearchError")
       ELSE LET r == addSearchResults(state, frozen,
                                      convertedResults(results))
            IN  IF r.threw THEN Catch(r.state, r.frozen, "SearchError")
                ELSE /\ state' = r.state
                     /\ frozen' = r.frozen
                     /\ Notify(r)
                     /\ task' = Await("searching", "decide", task.st)
  /\ UNCHANGED << tokensReported, fetched, parseFailed, pending >>
  /\ TaskFrame

\* handleSearching: the decision arrives.
searchingDecides ==
  /\ pc # "loop"
  /\ task.h = "searching"
  /\ task.at = "decide"
  /\ \E r \in LLMOutcomes, u \in Usages :
       /\ LLMSettles(r, u)
       /\ LET a == decideNextAction(r, getQuery(state))
              n == searchingNext(a, task.st)
          IN  IF a.threw \/ n.err # "none"
                THEN Catch(state, frozen, "SearchError")
                ELSE /\ task' = Returned("searching", task.st, n.res)
                     /\ UNCHANGED << state, frozen, notified >>
       /\ parseFailed' = (r.ok /\ parseAction(r.content, getQuery(state)).threw)
       /\ pending' = queriesOf(decideNextAction(r, getQuery(state)))
  /\ UNCHANGED fetched
  /\ TaskFrame

\* handleReading: contentReader.read settles, then markUrlVisited and
\* addContent.
readSettles ==
  /\ pc # "loop"
  /\ task.at = "read"
  /\ \E ok \in BOOLEAN :
       /\ IF ~ok THEN Catch(state, frozen, "ContentError")
          ELSE LET r1 == markUrlVisited(state, frozen, task.st.data)
                   r2 == addContent(r1.state, r1.frozen)
               IN  IF r1.threw
                     THEN Catch(r1.state, r1.frozen, "ContentError")
                   ELSE IF r2.threw
                     THEN Catch(r2.state, r2.frozen, "ContentError")
                   ELSE /\ state' = r2.state
                        /\ frozen' = r2.frozen
                        /\ Notify(r2)
                        /\ task' = Await("reading", "extract", task.st)
       /\ fetched' = IF ok THEN fetched \cup {task.st.data} ELSE fetched
  /\ UNCHANGED << tokensReported, parseFailed, pending >>
  /\ TaskFrame

\* handleReading: extractKnowledge settles, then addKnowledge.
extractSettles ==
  /\ pc # "loop"
  /\ task.at = "extract"
  /\ \E r \in LLMOutcomes, u \in Usages :
       /\ LLMSettles(r, u)
       /\ IF ~r.ok THEN Catch(state, frozen, "ContentError")
          ELSE LET k == addKnowledge(state, frozen, task.st.data)
               IN  IF k.threw THEN Catch(k.state, k.frozen, "ContentError")
                   ELSE /\ state' = k.state
                        /\ frozen' = k.frozen
                        /\ Notify(k)
                        /\ task' = Returned("reading", task.st,
                                      St("evaluating", task.st.step,
                                         "Visited " \o task.st.data))
  /\ UNCHANGED << fetched, parseFailed, pending >>
  /\ TaskFrame

\* handleEvaluating: the LLM call of shouldContinueResearch settles.
continueSettles ==
  /\ pc # "loop"
  /\ task.at = "continue"
  /\ \E r \in LLMOutcomes, u \in Usages :
       /\ LLMSettles(r, u)
       /\ task' = IF r.ok /\ ~includesYes(r.content)
                    THEN Returned("evaluating", task.st,
                                  St("reflecting", task.st.step,
                                     "Evaluating progress"))
                    ELSE Await("evaluating", "final", task.st)
  /\ UNCHANGED << state, frozen, fetched, parseFailed, pending, notified >>
  /\ TaskFrame

\* handleReflecting: the decision arrives.
reflectingDecides ==
  /\ pc # "loop"
  /\ task.h = "reflecting"
  /\ task.at = "decide"
  /\ \E r \in LLMOutcomes, u \in Usages :
       /\ LLMSettles(r, u)
       /\ LET a == decideNextAction(r, getQuery(state))
              n == reflectingNext(a, task.st, getQuery(state))
          IN  task' = IF a.threw THEN Threw("reflecting", task.st, "LLMError")
                      ELSE IF n.err = "final"
                        THEN Await("reflecting", "final", task.st)
                      ELSE IF n.err # "none"
                        THEN Threw("reflecting", task.st, n.err)
                      ELSE Returned("reflecting", task.st, n.res)
       /\ parseFailed' = (r.ok /\ parseAction(r.content, getQuery(state)).threw)
       /\ pending' = queriesOf(decideNextAction(r, getQuery(state)))
  /\ UNCHANGED << state, frozen, fetched, notified >>
  /\ TaskFrame

\* generateFinalAnswer (handleEvaluating, handleReflecting): the answer of
\* the completed state is the body of this call.
generateFinalAnswer ==
  /\ pc # "loop"
  /\ task.at = "final"
  /\ \E r \in LLMOutcomes, u \in Usages :
       /\ LLMSettles(r, u)
       /\ task' = IF r.ok
                    THEN Returned(task.h, task.st,
                                  St("completed", 0, r.content))
                    ELSE Threw(task.h, task.st, "LLMError")
  /\ UNCHANGED << state, frozen, fetched, parseFailed, pending, notified >>
  /\ TaskFrame

\* ------------------------------------------- run(): settling a transition
\* recordTransition never dropping an entry.
recordTransition_noLimit(h, from, to) == Append(h, [from |-> from, to |-> to])
\* recordTransition(from, to, duration): push, then drop the oldest entry
\* when the history has grown past its limit.
recordTransition(h, from, to) ==
  LET pushed == Append(h, [from |-> from, to |-> to])
  IN  IF Len(pushed) > HistoryLimit THEN Tail(pushed) ELSE pushed

\* run() taking the next state without counting the step.
runCommit_noCount ==
  /\ pc = "await"
  /\ ~detached
  /\ task.at = "returned"
  /\ currentState' = task.res
  /\ rejections' = IF task.h = "evaluating" /\ task.res.status = "reflecting"
                      THEN rejections + 1 ELSE rejections
  /\ task' = NoTask
  /\ history' = recordTransition(history, currentState, task.res)
  /\ stateChanges' = stateChanges + 1
  /\ pc' = "loop"
  /\ UNCHANGED << state, frozen, autoFreeze, maxSteps, searched, fetched,
                  lastCall, parseFailed, pending, stepCount, isCancelled,
                  cancelReason, startTime, transitionStart, outcome,
                  detached, reqQuery, tokensReported, now, other, lastError,
                  snapshot, tracked,
                  listeners, notified,
                  loaded, readResult >>
runCommit ==
  /\ pc = "await"
  /\ ~detached
  /\ task.at = "returned"
  /\ currentState' = task.res
  /\ stepCount' = stepCount + 1
  /\ rejections' = IF task.h = "evaluating" /\ task.res.status = "reflecting"
                      THEN rejections + 1 ELSE rejections
  /\ task' = NoTask
  /\ history' = recordTransition(history, currentState, task.res)
  /\ stateChanges' = stateChanges + 1
  /\ pc' = "loop"
  /\ UNCHANGED << state, frozen, autoFreeze, maxSteps, searched,
                  fetched, lastCall, parseFailed, pending, isCancelled, cancelReason,
                  startTime, transitionStart, outcome, detached, reqQuery,
                  tokensReported, now, other, lastError, snapshot, tracked,
                  listeners, notified,
                  loaded, readResult >>

\* run() recording the failed attempt as a transition before it rejects.
runReject_recorded ==
  /\ pc = "await"
  /\ ~detached
  /\ task.at = "threw"
  /\ task' = NoTask
  /\ pc' = "done"
  /\ outcome' = task.err
  /\ history' = recordTransition(history, currentState, currentState)
  /\ stateChanges' = stateChanges + 1
  /\ UNCHANGED << state, frozen, autoFreeze, maxSteps, rejections, searched,
                  fetched, lastCall, parseFailed, pending, currentState, stepCount,
                  isCancelled, cancelReason, startTime, transitionStart,
                  detached, reqQuery, tokensReported, now, other, lastError,
                  snapshot, tracked,
                  listeners, notified,
                  loaded, readResult >>
runReject ==
  /\ pc = "await"
  /\ ~detached
  /\ task.at = "threw"
  /\ task' = NoTask
  /\ pc' = "done"
  /\ outcome' = task.err
  /\ UNCHANGED << state, frozen, autoFreeze, maxSteps, rejections, searched,
                  fetched, lastCall, parseFailed, pending, currentState, stepCount,
                  isCancelled, cancelReason, startTime, transitionStart,
                  detached, reqQuery, tokensReported, now, other, lastError,
                  snapshot, tracked,
                  listeners, notified,
                  history, stateChanges,
                  loaded, readResult >>

\* executeWithTimeout: the timer promise resolves first; its value (the
\* callback) becomes the next state, the handler goes on unobserved.
timeoutFires ==
  /\ pc = "await"
  /\ ~detached
  /\ task.at \notin {"returned", "threw", "none"}
  /\ now - transitionStart >= Timeout
  /\ currentState' = TimerValue
  /\ stepCount' = stepCount + 1
  /\ detached' = TRUE
  /\ history' = recordTransition(history, currentState, TimerValue)
  /\ stateChanges' = stateChanges + 1
  /\ pc' = "loop"
  /\ UNCHANGED << state, frozen, autoFreeze, maxSteps, rejections, searched,
                  fetched, lastCall, parseFailed, pending, isCancelled, cancelReason,
                  startTime, transitionStart, outcome, task, reqQuery,
                  tokensReported, now, other, lastError, snapshot, tracked,
                  listeners, notified,
                  loaded, readResult >>

\* ------------------------------------------- configuration (schemas.ts)
\* process.env: each variable loadConfigFromEnv reads is unset (undefined)
\* or holds one of a few strings, the empty string among them.
undefined == "undefined"

Envs ==
  [ LLM_PROVIDER       : {undefined, "gemini", "azure"},
    LLM_API_KEY        : {undefined, "", "k1"},
    OPENAI_API_KEY     : {undefined, "k2"},
    GEMINI_API_KEY     : {undefined, "k3"},
    ANTHROPIC_API_KEY  : {undefined, "k4"},
    OPENAI_BASE_URL    : {undefined, "https://llm.example", "llm.example"},
    DEFAULT_MODEL_NAME : {undefined},
    SEARCH_PROVIDER    : {undefined},
    JINA_API_KEY       : {undefined, "", "k5"},
    BRAVE_API_KEY      : {undefined, "k6"},
    SERPER_API_KEY     : {undefined},
    MAX_STEPS          : {undefined, "50", "0", "many"},
    MAX_DURATION       : {undefined},
    MAX_BAD_ATTEMPTS   : {undefined, "11"},
    TOKEN_BUDGET       : {undefined, "1000"},
    LOG_LEVEL          : {undefined, "verbose"} ]

EnvNames ==
  {"LLM_PROVIDER", "LLM_API_KEY", "OPENAI_API_KEY", "GEMINI_API_KEY",
   "ANTHROPIC_API_KEY", "OPENAI_BASE_URL", "DEFAULT_MODEL_NAME",
   "SEARCH_PROVIDER", "JINA_API_KEY", "BRAVE_API_KEY", "SERPER_API_KEY",
   "MAX_STEPS", "MAX_DURATION", "MAX_BAD_ATTEMPTS", "TOKEN_BUDGET",
   "LOG_LEVEL"}

\* a ?? b ?? ... : the first operand that is not undefined.
RECURSIVE nullish(_)
nullish(xs) ==
  IF Len(xs) = 1 \/ Head(xs) # undefined THEN Head(xs) ELSE nullish(Tail(xs))

\* parseInt over the strings the environment and the defaults hold; a
\* string with no leading digits gives NaN.
NaN == [isNaN |-> TRUE, value |-> 0]
Num(n) == [isNaN |-> FALSE, value |-> n]
parseInt(s) ==
  CASE s = "0" -> Num(0)
    [] s = "3" -> Num(3)
    [] s = "11" -> Num(11)
    [] s = "50" -> Num(50)
    [] s = "100" -> Num(100)
    [] s = "1000" -> Num(1000)
    [] s = "300000" -> Num(300000)
    [] s = "2000000" -> Num(2000000)
    [] OTHER -> NaN

\* z.string().url(): the string parses as a URL.
isUrl(s) == s \in {"https://llm.example"}

\* Each schema: does the value pass (the parse does not throw).
LLMProviderConfigSchema(v) ==
  /\ v.name \in {"openai", "gemini", "anthropic"}
  /\ v.apiKey # ""
  /\ (v.baseUrl = undefined \/ isUrl(v.baseUrl))
  /\ v.model # ""

SearchProviderConfigSchema(v) ==
  /\ v.name \in {"jina", "brave", "serper"}
  /\ v.apiKey # ""

ResearchLimitsSchema(v) ==
  /\ ~v.maxSteps.isNaN /\ v.maxSteps.value > 0 /\ v.maxSteps.value <= 1000
  /\ ~v.maxDuration.isNaN /\ v.maxDuration.value > 0
  /\ v.maxDuration.value <= 3600000
  /\ ~v.maxBadAttempts.isNaN /\ v.maxBadAttempts.value >= 0
  /\ v.maxBadAttempts.value <= 10
  /\ ~v.tokenBudget.isNaN /\ v.tokenBudget.value > 0
  /\ v.tokenBudget.value <= 10000000

\* Every flag has a default, the object itself has none: it must be there.
FeatureFlagsSchema(v) == v # undefined

ObservabilityConfigSchema(v) ==
  v.logLevel \in {"debug", "info", "warn", "error"}

NoLimits == [maxSteps |-> 0, maxDuration |-> 0, maxBadAttempts |-> 0,
             tokenBudget |-> 0]

\* AppConfigSchema.parse(raw): the parsed limits, or a ZodError thrown.
AppConfigSchema(raw) ==
  LET key(k) == IF k \in DOMAIN raw THEN raw[k] ELSE undefined
      ok == /\ LLMProviderConfigSchema(raw.llm)
            /\ SearchProviderConfigSchema(raw.search)
            /\ ResearchLimitsSchema(raw.limits)
            /\ FeatureFlagsSchema(key("features"))
            /\ ObservabilityConfigSchema(raw.observability)
  IN  [threw |-> ~ok,
       limits |-> IF ok
                  THEN [maxSteps |-> raw.limits.maxSteps.value,
                        maxDuration |-> raw.limits.maxDuration.value,
                        maxBadAttempts |-> raw.limits.maxBadAttempts.value,
                        tokenBudget |-> raw.limits.tokenBudget.value]
                  ELSE NoLimits]

loadConfigFromEnv(env) ==
  AppConfigSchema(
    [llm |-> [name |-> nullish(<< env.LLM_PROVIDER, "openai" >>),
              apiKey |-> nullish(<< env.LLM_API_KEY, env.OPENAI_API_KEY,
                                    env.GEMINI_API_KEY,
                                    env.ANTHROPIC_API_KEY, "" >>),
              baseUrl |-> env.OPENAI_BASE_URL,
              model |-> nullish(<< env.DEFAULT_MODEL_NAME, "gpt-4o-mini" >>)],
     search |-> [name |-> nullish(<< env.SEARCH_PROVIDER, "jina" >>),
                 apiKey |-> nullish(<< env.JINA_API_KEY, env.BRAVE_API_KEY,
                                       env.SERPER_API_KEY, "" >>)],
     limits |-> [maxSteps |-> parseInt(nullish(<< env.MAX_STEPS, "100" >>)),
                 maxDuration |->
                   parseInt(nullish(<< env.MAX_DURATION, "300000" >>)),
                 maxBadAttempts |->
                   parseInt(nullish(<< env.MAX_BAD_ATTEMPTS, "3" >>)),
                 tokenBudget |->
                   parseInt(nullish(<< env.TOKEN_BUDGET, "2000000" >>))],
     observability |-> [logLevel |-> nullish(<< env.LOG_LEVEL, "info" >>)]])

NoLoad == [called |-> FALSE, env |-> [v \in EnvNames |-> undefined],
           threw |-> FALSE, limits |-> NoLimits]

\* ------------------------------------ content reader (WebContentReader)
\* A page is the sequence of its pieces of text: each one is the body of a
\* <p> element or text outside any paragraph, stands in the page body,
\* inside a <nav> or inside a <script>, has a length once its tags are
\* removed and it is trimmed, and may hold runs of blanks.
Nodes == [tag : {"p", "text"}, inside : {"body", "nav", "script"},
          len : {50, 51}, runs : {0, 1}]

Pages == UNION { [1..n -> Nodes] : n \in 0..MaxNodes }

\* The text extractMainContent returns, read as HTML again: the paragraphs
\* it keeps, now text outside any element.  Scripts go with all they hold;
\* the pattern for header, footer and nav ends in </\1> with no group 1 to
\* refer to, matches nothing, and leaves those elements in.
extractMainContent(html) ==
  LET kept(n) == n.tag = "p" /\ n.inside # "script" /\ n.len > 50
      paragraphs == SelectSeq(html, kept)
  IN  [i \in 1..Len(paragraphs) |->
         [paragraphs[i] EXCEPT !.tag = "text", !.inside = "body"]]

\* cleanText: every run of blanks becomes one blank.
cleanText(text) ==
  [i \in 1..Len(text) |-> [text[i] EXCEPT !.len = @ - text[i].runs,
                                          !.runs = 0]]

\* The length of a text whose pieces are joined by two line feeds.
RECURSIVE length(_)
length(text) ==
  IF text = << >> THEN 0
  ELSE Head(text).len + (IF Len(text) > 1 THEN 2 ELSE 0) + length(Tail(text))

\* ContentReadOptions: extractMain is absent, true or false; maxLength is a
\* number, 0 standing for an absent one too (options?.maxLength || 50000
\* takes both alike).
ReadOptions == [extractMain : {undefined, "true", "false"},
                maxLength : {0, 60}]

Responses == {"ok", "not ok", "aborted"}

NoRead == [called |-> FALSE, html |-> << >>,
           options |-> [extractMain |-> undefined, maxLength |-> 0],
           threw |-> FALSE, content |-> << >>, truncated |-> FALSE]

readWithMetadata(html, options, response) ==
  IF response # "ok"
  THEN [threw |-> TRUE, content |-> << >>, truncated |-> FALSE]
  ELSE LET maxLength == IF options.maxLength = 0 THEN 50000
                        ELSE options.maxLength
           first == extractMainContent(html)
           second == IF options.extractMain # "false"
                     THEN extractMainContent(first) ELSE first
           content == cleanText(second)
       IN  [threw |-> FALSE, content |-> content,
            truncated |-> length(content) > maxLength]

\* ------------------------------------------------------- specifications
InitCommon ==
  /\ frozen = FALSE
  /\ autoFreeze \in BOOLEAN
  /\ currentState = IdleState
  /\ stepCount = 0
  /\ isCancelled = FALSE
  /\ cancelReason = ""
  /\ startTime = 0
  /\ transitionStart = 0
  /\ pc = "idle"
  /\ outcome = "none"
  /\ task = NoTask
  /\ detached = FALSE
  /\ reqQuery = ""
  /\ tokensReported = 0
  /\ now = 0
  /\ rejections = 0
  /\ searched = FALSE
  /\ fetched = {}
  /\ lastCall = NoCall
  /\ parseFailed = FALSE
  /\ other = NoRun
  /\ lastError = NoError
  /\ snapshot = NoSnapshot
  /\ tracked = 0
  /\ pending = {}
  /\ listeners = {}
  /\ notified = NoUpdate
  /\ history = << >>
  /\ stateChanges = 0
  /\ loaded = NoLoad
  /\ readResult = NoRead

Init ==
  /\ state = InitialResearchState
  /\ maxSteps = MaxSteps
  /\ InitCommon

Next ==
  \/ \E q \in Queries \cup {""} : research(q)
  \/ \E r \in Reasons : cancel(r)
  \/ \E n \in TokenAmounts : callTrackTokenUsage(n)
  \/ \E k \in Questions : callAddKnowledge(k)
  \/ \E l \in SearchResultLists : callAddSearchResults(l)
  \/ \E u \in Urls : callMarkUrlVisited(u)
  \/ callGetState
  \/ Tick
  \/ runCancelled
  \/ handleIdle
  \/ runReject

Spec == Init /\ [][Next]_vars

\* The agent over an injected StateManager: its state may already hold the
\* session query ('' is the state the constructor builds).
InitAgent ==
  /\ state \in { [InitialResearchState EXCEPT !.query = q] : q \in {"", "q1"} }
  /\ maxSteps = MaxSteps
  /\ InitCommon

RunStep ==
  \/ runReturn
  \/ runCancelled
  \/ runMaxSteps
  \/ runMaxDuration
  \/ runNoHandler
  \/ handleIdle
  \/ handleInitializing
  \/ handleSearching
  \/ handleReading
  \/ handleEvaluating
  \/ handleReflecting
  \/ searchSettles
  \/ searchingDecides
  \/ readSettles
  \/ extractSettles
  \/ continueSettles
  \/ reflectingDecides
  \/ generateFinalAnswer
  \/ runCommit
  \/ runReject
  \/ timeoutFires

NextAgent ==
  \/ \E q \in Queries \cup {""} : research(q)
  \/ \E r \in Reasons : cancel(r)
  \/ Tick
  \/ RunStep

SpecAgent == InitAgent /\ [][NextAgent]_vars

\* Every step of a run is taken once it can be: the event loop runs the
\* continuations that are ready, timers fire, and each port call settles.
FairAgent == SpecAgent /\ WF_vars(RunStep)

\* The agent called again after a session that reached a terminal state:
\* sessions nobody cancels and no timer cuts short, on either Immer build.
NextAfter ==
  \/ \E q \in Queries \cup {""} : research(q)
  \/ \E q \in Queries \cup {""} : researchAfterTerminal(q)
  \/ runReturn
  \/ runMaxSteps
  \/ handleIdle
  \/ handleInitializing
  \/ handleSearching
  \/ handleReading
  \/ handleEvaluating
  \/ handleReflecting
  \/ searchSettles
  \/ searchingDecides
  \/ readSettles
  \/ extractSettles
  \/ continueSettles
  \/ reflectingDecides
  \/ generateFinalAnswer
  \/ runCommit
  \/ runReject

SpecAfter == InitAgent /\ [][NextAfter]_vars

\* A long session nobody disturbs: the caller never cancels, the clock does
\* not advance, the Immer build does not freeze.
InitLong ==
  /\ state = [InitialResearchState EXCEPT !.query = "q1"]
  /\ maxSteps = LongSteps
  /\ InitCommon
  /\ autoFreeze = FALSE

NextLong ==
  \/ \E q \in Queries : research(q)
  \/ runReturn
  \/ runMaxSteps
  \/ handleIdle
  \/ handleInitializing
  \/ handleSearching
  \/ handleReading
  \/ handleEvaluating
  \/ handleReflecting
  \/ searchSettles
  \/ searchingDecides
  \/ readSettles
  \/ extractSettles
  \/ continueSettles
  \/ reflectingDecides
  \/ generateFinalAnswer
  \/ runCommit
  \/ runReject

SpecLong == InitLong /\ [][NextLong]_vars

\* Two overlapping research() calls on one agent, in a session that is not
\* timed out.
InitTwo ==
  /\ state = [InitialResearchState EXCEPT !.query = "q1"]
  /\ maxSteps = MaxSteps
  /\ InitCommon
  /\ autoFreeze = FALSE

NextTwo ==
  \/ \E q \in Queries : research(q)
  \/ \E q \in Queries : researchAgain(q)
  \/ swapRuns
  \/ \E r \in Reasons : cancel(r)
  \/ runReturn
  \/ runCancelled
  \/ runMaxSteps
  \/ handleIdle
  \/ handleInitializing
  \/ handleSearching
  \/ handleReading
  \/ handleEvaluating
  \/ handleReflecting
  \/ searchSettles
  \/ searchingDecides
  \/ readSettles
  \/ extractSettles
  \/ continueSettles
  \/ reflectingDecides
  \/ generateFinalAnswer
  \/ runCommit
  \/ runReject

SpecTwo == InitTwo /\ [][NextTwo]_vars

\* A StateManager with subscribers: its owner subscribes and unsubscribes
\* listeners between the calls that update it, research() among them.
NextListeners ==
  \/ \E l \in Listeners : subscribe(l)
  \/ \E l \in Listeners : unsubscribe(l)
  \/ \E q \in Queries \cup {""} : research(q)
  \/ \E n \in TokenAmounts : callTrackTokenUsage(n)
  \/ \E k \in Questions : callAddKnowledge(k)
  \/ \E l \in SearchResultLists : callAddSearchResults(l)
  \/ \E u \in Urls : callMarkUrlVisited(u)

SpecListeners == Init /\ [][NextListeners]_vars

\* The error classes on their own: errors built for any status code.
ErrorFrame ==
  UNCHANGED << state, frozen, autoFreeze, maxSteps, rejections, searched,
               fetched, lastCall, parseFailed, pending, other, currentState,
               stepCount, isCancelled, cancelReason, startTime,
               transitionStart, pc, outcome, task, detached, reqQuery,
               tokensReported, now, snapshot, tracked,
                  listeners, notified,
                  history, stateChanges,
                  loaded, readResult >>

newLLMError(sc) ==
  /\ lastError' = LLMError(sc)
  /\ ErrorFrame

newSearchError(sc) ==
  /\ lastError' = SearchError(sc)
  /\ ErrorFrame

NextErrors ==
  \/ \E sc \in StatusCodes : newLLMError(sc)
  \/ \E sc \in StatusCodes : newSearchError(sc)

SpecErrors == Init /\ [][NextErrors]_vars

\* The command line's start: main() loads the configuration, once, from
\* whatever environment the process was started with.
ConfigFrame ==
  UNCHANGED << state, frozen, autoFreeze, maxSteps, rejections, searched,
               fetched, lastCall, parseFailed, pending, other, currentState,
               stepCount, isCancelled, cancelReason, startTime,
               transitionStart, pc, outcome, task, detached, reqQuery,
               tokensReported, now, snapshot, tracked, lastError,
               listeners, notified, history, stateChanges, readResult >>

main(env) ==
  /\ loaded' = LET r == loadConfigFromEnv(env)
               IN  [called |-> TRUE, env |-> env, threw |-> r.threw,
                    limits |-> r.limits]
  /\ ConfigFrame

NextConfig == ~loaded.called /\ \E env \in Envs : main(env)

SpecConfig == Init /\ [][NextConfig]_vars

\* The reader on its own: read(url, options) of any page the URL serves.
\* The reader keeps nothing from one call to the next, so a behaviour
\* follows one call.
ReaderFrame ==
  UNCHANGED << state, frozen, autoFreeze, maxSteps, rejections, searched,
               fetched, lastCall, parseFailed, pending, other, currentState,
               stepCount, isCancelled, cancelReason, startTime,
               transitionStart, pc, outcome, task, detached, reqQuery,
               tokensReported, now, snapshot, tracked, lastError,
               listeners, notified, history, stateChanges, loaded >>

read(html, options, response) ==
  /\ readResult' = LET r == readWithMetadata(html, options, response)
                   IN  [called |-> TRUE, html |-> html, options |-> options,
                        threw |-> r.threw, content |-> r.content,
                        truncated |-> r.truncated]
  /\ ReaderFrame

NextReader ==
  /\ ~readResult.called
  /\ \E html \in Pages, options \in ReadOptions, response \in Responses :
       read(html, options, response)

SpecReader == Init /\ [][NextReader]_vars

\* ================================================================ claims

\* C1: after initialize(q) with a non-empty q, getQuery() returns q, and
\* research(q) does not fail with ConfigurationError 'Query not initialized'.
C1_InitializeStoresQuery ==
  (pc # "idle" /\ reqQuery # "")
    => (getQuery(state) = reqQuery /\ outcome # "ConfigurationError")

\* C2: whatever the ports answer, a call of research() that has started
\* eventually finishes.
C2_ResearchTerminates == (pc \in {"loop", "await"}) ~> (pc = "done")

\* C2 witness: a run fed by the ports up to the step limit has finished.
C2_Witness == pc = "done" /\ stepCount = maxSteps /\ tokensReported > 0

\* C3: the step count never exceeds maxSteps; a run whose state is still
\* not terminal after maxSteps transitions rejects with 'Max steps', and it
\* does so only then.
C3_MaxStepsEnforced ==
  /\ [](stepCount <= maxSteps)
  /\ [](outcome = "MaxSteps" => stepCount = maxSteps)
  /\ [][(pc = "loop" /\ stepCount = maxSteps /\ ~isTerminal(currentState)
          /\ ~isCancelled)
          => (pc' = "done" /\ outcome' = "MaxSteps")]_vars

\* C3 witness: run() has rejected with 'Max steps' after maxSteps transitions.
C3_Witness ==
  pc = "done" /\ outcome = "MaxSteps" /\ stepCount = maxSteps

\* C4: a run that is neither cancelled nor mis-configured (it was given a
\* query) returns a result built from a completed or failed state; nothing
\* is raised to the caller of research().
C4_NothingRaised ==
  (pc = "done" /\ ~isCancelled /\ reqQuery # "")
    => (outcome = "Returned" /\ currentState.status \in {"completed", "failed"})

\* C5: a cancellation requested during a run and observed by it leaves the
\* session in the terminal state 'cancelled' carrying the reason.
C5_CancelledState ==
  (pc = "done" /\ outcome = "Cancelled" /\ stepCount > 0)
    => currentState = St("cancelled", 0, cancelReason)

\* C6: once cancel() has been called during a run, research() does not
\* return a completed answer.
C6_NoAnswerAfterCancel ==
  [][(isCancelled /\ pc \in {"loop", "await"})
       => ~(pc' = "done" /\ outcome' = "Returned"
            /\ currentState'.status = "completed")]_vars

\* C7: at the head of an iteration a requested cancellation wins: run()
\* rejects with the cancellation, whatever the step count and the elapsed
\* time are, and no handler is started.
C7_CancellationFirst ==
  [][(pc = "loop" /\ isCancelled /\ ~isTerminal(currentState))
       => (pc' = "done" /\ outcome' = "Cancelled" /\ task' = task)]_vars

\* C7 witness: a cancelled run whose step limit was reached as well.
C7_Witness ==
  pc = "done" /\ outcome = "Cancelled" /\ stepCount = maxSteps

\* C8: no search, read or reflect iteration starts once the tokens reported
\* by the LLM calls have reached 85% of the token budget.
C8_BudgetGate ==
  [][(pc = "loop" /\ pc' = "await"
      /\ currentState.status \in {"searching", "reading", "reflecting"})
       => 100 * tokensReported < 85 * TokenBudget]_vars

\* C9: a completed state carrying the answer of an LLM answer action is
\* entered from the evaluating state only.
C9_AnswerIsEvaluated ==
  [][(currentState'.status = "completed" /\ currentState.status # "completed"
      /\ currentState'.data = "a1")
       => currentState.status = "evaluating"]_vars

\* C10: when the evaluation ends the session, the completed state carries
\* the candidate answer of the evaluating state.
C10_CandidateIsAnswer ==
  [][(currentState.status = "evaluating" /\ currentState'.status = "completed")
       => currentState'.data = currentState.data]_vars

\* C11: in one session the number of rejected candidate answers
\* (evaluations that send the research on, evaluating -> reflecting) never
\* exceeds maxBadAttempts.
C11_RejectionsBounded == rejections <= MaxBadAttempts

\* C12: when the first decision of the LLM in a session is an answer, the
\* research completes with that answer, and no search or fetch call has
\* been made.
C12_DirectAnswer ==
  [][(/\ stepCount = 2 /\ ~detached
      /\ task.h = "searching" /\ task.at = "decide"
      /\ task'.at = "returned" /\ task'.res.data = "a1")
       => (/\ task'.res = St("completed", 0, "a1")
           /\ ~searched
           /\ fetched = {})]_vars

\* C13: a decision of the LLM that parseAction cannot turn into an action
\* does not make the handler throw (which would end the run): the error
\* count goes up by one and the loop goes on.
C13_ParseFailureCounted ==
  [][(/\ ~detached /\ task.at = "decide" /\ task'.at # "decide"
      /\ parseFailed')
       => (/\ task'.at # "threw"
           /\ state'.errorCount = state.errorCount + 1)]_vars

\* C14: when cancel() has been called while contentReader.read is in flight,
\* the handler records nothing for that URL and starts no LLM call once the
\* fetch has settled.
C14_CancelDuringFetch ==
  [][(/\ isCancelled /\ ~detached
      /\ task.at = "read" /\ task'.at # "read")
       => (/\ task'.at # "extract"
           /\ state'.visitCount = state.visitCount)]_vars

C16_StepCountCounts ==
  [][IF pc = "await" /\ pc' = "loop"
       THEN stepCount' = stepCount + 1
       ELSE stepCount' = stepCount]_vars

\* Three transitions have been completed and counted.
C16_Witness == stepCount = 3 /\ currentState.status = "evaluating"

\* C17: a knowledge item added with addKnowledge is in the knowledge store
\* once the call has returned, and no item ever leaves the store.
C17_KnowledgeAppendOnly ==
  /\ []((lastCall.op = "addKnowledge" /\ ~lastCall.threw)
          => \E i \in 1..Len(state.knowledge) :
                state.knowledge[i] = lastCall.question)
  /\ [][\A i \in 1..Len(state.knowledge) :
          \E j \in 1..Len(state'.knowledge) :
             state'.knowledge[j] = state.knowledge[i]]_vars

\* C18: a read step is never started for a URL whose page has already been
\* fetched (and marked visited) earlier in the session.
C18_NoRefetch ==
  [][(pc = "loop" /\ pc' = "await" /\ currentState.status = "reading")
       => currentState.data \notin fetched]_vars

\* C19: run() returns only a state whose status is completed, failed or
\* cancelled; while such a state is the current state no handler is started
\* and the current state does not change.
C19_TerminalIsFinal ==
  /\ [](outcome = "Returned"
          => currentState.status \in {"completed", "failed", "cancelled"})
  /\ [][currentState.status \in {"completed", "failed", "cancelled"}
          => (/\ currentState' = currentState
              /\ ~(pc = "loop" /\ pc' = "await"))]_vars

\* run() has returned a completed state.
C19_Witness ==
  pc = "done" /\ outcome = "Returned" /\ currentState.status = "completed"

\* C21: two transition handlers of one agent are never in flight at the
\* same time, whatever research() and cancel() calls the caller makes.
C21_OneHandlerInFlight ==
  ~(/\ pc = "await"
    /\ task.at \notin {"returned", "threw", "none"}
    /\ other.pc = "await"
    /\ other.task.at \notin {"returned", "threw", "none"})

\* C22: for every HTTP status code (100 and above) and for an absent status,
\* an LLMError is retryable exactly when the status is absent, 429, or 500
\* and above; every other 4xx status is not retryable.
C22_LLMErrorRetryable ==
  (/\ lastError.kind = "LLMError"
   /\ (~lastError.statusCode.has \/ lastError.statusCode.code >= 100))
    => (lastError.retryable
          <=> (\/ ~lastError.statusCode.has
               \/ lastError.statusCode.code = 429
               \/ lastError.statusCode.code >= 500))

\* An LLMError built for a rate limit is retryable.
C22_Witness ==
  /\ lastError.kind = "LLMError"
  /\ lastError.statusCode = [has |-> TRUE, code |-> 429]
  /\ lastError.retryable

\* C23: a SearchError is retryable when it has no status, status 429 or a
\* 5xx status, and not retryable for every other 4xx status.
C23_SearchErrorRetryable ==
  lastError.kind = "SearchError"
    => LET sc == lastError.statusCode
       IN  /\ (~sc.has \/ sc.code = 429 \/ sc.code \in 500..599)
                => lastError.retryable
           /\ (sc.has /\ sc.code \in 400..499 /\ sc.code # 429)
                => ~lastError.retryable

\* C24: when the searching step fails because its search port call failed
\* (network error, 5xx or 429), the call has been attempted three times.
C24_RetriedThreeTimes ==
  [][(/\ ~detached /\ task.at = "search"
      /\ task'.at = "threw" /\ task'.err = "SearchError")
       => attemptsMade = 3]_vars

\* C25: the object getState() returned keeps, in every field, the content
\* it had when it was returned, whatever updates follow.
C25_SnapshotUnchanged == snapshot.taken => returnedObject = snapshot.seen

\* C26: when a transition handler has been running for longer than
\* maxDuration and run() has settled, run() has rejected with the
\* 'Max duration' error.
C26_MaxDurationRaised ==
  (/\ pc = "done"
   /\ task.at \notin {"none", "returned", "threw"}
   /\ now - transitionStart > MaxDuration)
    => outcome = "MaxDuration"

\* C27: every transition a handler of the agent makes run() take is one of
\* the documented ones.
C27_DocumentedTransitions ==
  [][(pc = "await" /\ task.at = "returned" /\ pc' = "loop")
       => << currentState.status, currentState'.status >>
            \in documentedTransitions]_vars

\* C28: when options.timeout has elapsed and the handler in flight has not
\* completed, run() rejects with the 'State transition timeout' error and
\* leaves the current state and the step count as they were.
C28_TimeoutRejects ==
  [][(/\ pc = "await" /\ ~detached
      /\ task.at \notin {"none", "returned", "threw"}
      /\ now - transitionStart >= Timeout
      /\ pc' # "await")
       => (/\ pc' = "done"
           /\ outcome' = "Timeout"
           /\ currentState' = currentState
           /\ stepCount' = stepCount)]_vars

\* C29: isBudgetExhausted() is true exactly when the sum of the amounts
\* passed to trackTokenUsage is at least 85% of budget.total.
C29_BudgetExhausted ==
  isBudgetExhausted(state) <=> (100 * tracked >= 85 * TokenBudget)

\* C30: when the searching handler has made its search call and asks the
\* LLM for the next action, every query of the last search action has been
\* passed to the search port.
C30_EveryQuerySearched ==
  (~detached /\ task.h = "searching" /\ task.at = "decide") => pending = {}

\* C31: a URL passed to addSearchResults has a record in the URL store once
\* the call has returned; the record a URL has is never replaced by another
\* result, and a record marked visited stays visited.
C31_FirstRecordKept ==
  /\ []((lastCall.op = "addSearchResults" /\ ~lastCall.threw)
          => lastCall.urls \subseteq DOMAIN state.urls)
  /\ [][\A u \in DOMAIN state.urls :
          /\ u \in DOMAIN state'.urls
          /\ state'.urls[u].title = state.urls[u].title
          /\ state.urls[u].visited => state'.urls[u].visited]_vars

\* C32: an update() made while listeners are subscribed calls each of them
\* exactly once and nobody else, after the update has been applied: the
\* state it passes is the state the update describes, which is the state
\* getState() returns then.
C32_ListenersNotified ==
  notified.called
    => /\ \A l \in Listeners :
            notified.n[l] = IF l \in notified.subs THEN 1 ELSE 0
       /\ notified.seen = notified.applied

\* C33: the history holds the most recent min(stepCount, limit) transitions
\* run() has completed, in the order they were made (each one is appended
\* when it is made, the oldest leaves when the limit is passed), and the
\* 'to' state of an entry is the 'from' state of the next entry.
C33_HistoryIsRecent ==
  /\ [](Len(history) = IF stepCount < HistoryLimit THEN stepCount
                                                  ELSE HistoryLimit)
  /\ [](\A i \in 1..(Len(history) - 1) : history[i].to = history[i + 1].from)
  /\ [](history # << >> => history[Len(history)].to = currentState)
  /\ [][stepCount' # stepCount
         => LET e == [from |-> currentState, to |-> currentState']
            IN  history' = IF Len(history) < HistoryLimit
                             THEN Append(history, e)
                             ELSE Append(Tail(history), e)]_vars

\* The history is full and its oldest entry has been dropped.
C33_Witness ==
  /\ stepCount > HistoryLimit
  /\ Len(history) = HistoryLimit
  /\ history[1].from.status # "idle"

C35_NothingAfterFinish ==
  [][pc = "done"
       => (/\ state' = state
           /\ task'.at # task.at
                => task'.at \notin {"search", "read", "decide", "extract",
                                    "continue", "final"})]_vars

C37_ErrorKinds ==
  /\ [][(task'.at = "threw" /\ task.at # "threw" /\ task'.err = "SearchError")
         => task.at = "search"]_vars
  /\ [][(task.at = "decide" /\ task'.at = "threw" /\ parseFailed'
          /\ ~frozen')
         => task'.err = "LLMError"]_vars

\* C38: when the environment sets one LLM API key and one search API key,
\* both non-empty, and no other variable, loadConfigFromEnv() returns a
\* configuration whose limits are maxSteps 100, maxDuration 300000,
\* maxBadAttempts 3 and tokenBudget 2000000.
C38_DefaultLimitsLoad ==
  LET set == { v \in EnvNames : loaded.env[v] # undefined }
      llmKeys == {"LLM_API_KEY", "OPENAI_API_KEY", "GEMINI_API_KEY",
                  "ANTHROPIC_API_KEY"}
      searchKeys == {"JINA_API_KEY", "BRAVE_API_KEY", "SERPER_API_KEY"}
  IN  (/\ loaded.called
       /\ Cardinality(set) = 2
       /\ Cardinality(set \cap llmKeys) = 1
       /\ Cardinality(set \cap searchKeys) = 1
       /\ \A v \in set : loaded.env[v] # "")
        => /\ ~loaded.threw
           /\ loaded.limits = [maxSteps |-> 100, maxDuration |-> 300000,
                               maxBadAttempts |-> 3,
                               tokenBudget |-> 2000000]

\* C39: with default options, read(url) of a page that was fetched returns
\* the cleaned text of one extractMainContent pass over the page, which is
\* not empty when the page has a paragraph of more than 50 characters.
C39_ReadReturnsParagraphs ==
  (/\ readResult.called
   /\ ~readResult.threw
   /\ readResult.options.extractMain = undefined
   /\ readResult.options.maxLength = 0)
    => /\ readResult.content
            = cleanText(extractMainContent(readResult.html))
       /\ (\E i \in 1..Len(readResult.html) :
             /\ readResult.html[i].tag = "p"
             /\ readResult.html[i].inside = "body"
             /\ readResult.html[i].len > 50)
            => readResult.content # << >>

====
